---------------------------- MODULE Spec2Model ----------------------------
(***************************************************************************)
(* A model of SEP's aperture photometry core (src/src/aper.c).             *)
(*                                                                         *)
(* The C doubles are modelled as exact rationals <<num, den>> (den > 0,    *)
(* lowest terms), so every comparison of the code is decided exactly and   *)
(* floating-point rounding is left out.  C ints are TLA+ integers; the     *)
(* (int) conversion truncates toward zero.                                 *)
(*                                                                         *)
(* Every function of aper.c is an operator that returns the memory the     *)
(* call leaves behind; the state of the model is the caller's memory: the  *)
(* arguments of the call (in) and the output buffers (out).                *)
(***************************************************************************)
EXTENDS Integers, Sequences, FiniteSets, TLC

VARIABLES
    pc,     \* "ready": a call is prepared; otherwise the function that ran
    in,     \* the arguments of the call
    out     \* the caller-visible output memory

vars == <<pc, in, out>>

(***************************************************************************)
(* Exact arithmetic on rationals.                                          *)
(***************************************************************************)
Abs(n) == IF n < 0 THEN -n ELSE n

RECURSIVE Gcd(_, _)
Gcd(m, n) == IF n = 0 THEN m ELSE Gcd(n, m % n)

Rat(n, d) ==
    LET s == IF d < 0 THEN -1 ELSE 1
        g == Gcd(Abs(n), Abs(d))
    IN  <<(s * n) \div g, (s * d) \div g>>

RInt(n) == <<n, 1>>
RZero == <<0, 1>>
ROne == <<1, 1>>
\* over the least common denominator, which keeps the operands small
RAdd(p, q) ==
    LET g == Gcd(p[2], q[2])
    IN  Rat(p[1] * (q[2] \div g) + q[1] * (p[2] \div g), p[2] * (q[2] \div g))
RSub(p, q) == RAdd(p, <<-q[1], q[2]>>)
RMul(p, q) == Rat(p[1] * q[1], p[2] * q[2])
RDiv(p, q) == Rat(p[1] * q[2], p[2] * q[1])
\* a/b < c/d for b, d > 0, by continued fractions: no product is formed, so
\* no operand leaves the range of the integers TLC computes with.
RECURSIVE FracLt(_, _, _, _)
FracLt(a, b, c, d) ==
    LET qa == a \div b
        qc == c \div d
        ra == a % b
        rc == c % d
    IN  IF qa # qc THEN qa < qc
        ELSE IF rc = 0 THEN FALSE
        ELSE IF ra = 0 THEN TRUE
        ELSE FracLt(d, rc, b, ra)

RLt(p, q) == FracLt(p[1], p[2], q[1], q[2])
RLe(p, q) == ~FracLt(q[1], q[2], p[1], p[2])
RGt(p, q) == RLt(q, p)
RGe(p, q) == RLe(q, p)
RNeg(p) == <<-p[1], p[2]>>

\* (int)v of C: truncation toward zero.
CInt(p) == IF p[1] >= 0 THEN p[1] \div p[2] ELSE -((-p[1]) \div p[2])
\* floor(v) of mathematics.
RFloor(p) == p[1] \div p[2]

(***************************************************************************)
(* Bounds of the model.                                                    *)
(***************************************************************************)
MaxBins == 3        \* sep_ppf: the profile has 1..MaxBins bins
MaxY == 2           \* sep_ppf: a bin holds 0..MaxY
MaxFracs == 2       \* sep_ppf: 1..MaxFracs target fractions
FracDen == 4        \* sep_ppf: the fractions are k/FracDen, k = 0..FracDen+1
MaxXmax == 2        \* sep_ppf: xmax is 1..MaxXmax

SeqsUpTo(S, n) == UNION {[1..k -> S] : k \in 1..n}

\* TLC passes operator arguments unevaluated; a loop evaluates its accumulator
\* at each iteration by comparing it, which keeps the evaluation shallow.
Strict(v, e) == IF v = v THEN e ELSE v

(***************************************************************************)
(* sep_ppf (aper.c 517-553).  y, frac and xout are 1-based sequences here: *)
(* y[i+1] is the C y[i].                                                   *)
(***************************************************************************)
\* Both loops are evaluated eight iterations at a time: TLC evaluates a loop
\* as a recursion, and the nesting stays shallow for long profiles.
\* for (j=0; j<n; j++) sum += y[j];   (at most k iterations)
RECURSIVE ppf_sum_steps(_, _, _, _, _)
ppf_sum_steps(y, n, i, sum, k) ==
    IF i < n /\ k > 0
    THEN Strict(sum, ppf_sum_steps(y, n, i + 1, RAdd(sum, y[i + 1]), k - 1))
    ELSE [i |-> i, sum |-> sum]

RECURSIVE ppf_sum(_, _, _, _)
ppf_sum(y, n, i, sum) ==
    LET s == ppf_sum_steps(y, n, i, sum, 8)
    IN  IF s.i < n THEN ppf_sum(y, n, s.i, s.sum) ELSE s.sum

\* while (i < n && cumsum < targsum) { cumsum += y[i]; i++; }
\* (at most k iterations)
RECURSIVE ppf_while_steps(_, _, _, _, _, _)
ppf_while_steps(y, n, targsum, i, cumsum, k) ==
    IF i < n /\ RLt(cumsum, targsum) /\ k > 0
    THEN Strict(cumsum,
                ppf_while_steps(y, n, targsum, i + 1, RAdd(cumsum, y[i + 1]), k - 1))
    ELSE [i |-> i, cumsum |-> cumsum]

RECURSIVE ppf_while(_, _, _, _, _)
ppf_while(y, n, targsum, i, cumsum) ==
    LET s == ppf_while_steps(y, n, targsum, i, cumsum, 8)
    IN  IF s.i < n /\ RLt(s.cumsum, targsum)
        THEN ppf_while(y, n, targsum, s.i, s.cumsum)
        ELSE s

\* the branch after the while loop
ppf_xout(xmax, y, n, targsum, i, cumsum) ==
    LET step == RDiv(xmax, RInt(n))
    IN  IF i = 0 THEN RZero
        ELSE IF i = n THEN xmax
        ELSE RMul(step, RAdd(RInt(i), RDiv(RSub(targsum, cumsum), y[i])))

sep_ppf(xmax, y, n, frac, nfrac) ==
    LET sum == ppf_sum(y, n, 0, RZero)
    IN  [j \in 1..nfrac |->
            LET targsum == RMul(frac[j], sum)
                w == ppf_while(y, n, targsum, 0, RZero)
            IN  ppf_xout(xmax, y, n, targsum, w.i, w.cumsum)]

PpfInit ==
    /\ pc = "ready"
    /\ \E y \in SeqsUpTo({RInt(v) : v \in 0..MaxY}, MaxBins),
          frac \in SeqsUpTo({Rat(k, FracDen) : k \in 0..(FracDen + 1)}, MaxFracs),
          xmax \in 1..MaxXmax :
          in = [xmax |-> RInt(xmax), y |-> y, n |-> Len(y),
                frac |-> frac, nfrac |-> Len(frac)]
    /\ out = [xout |-> <<>>]

PpfCall ==
    /\ pc = "ready"
    /\ pc' = "sep_ppf"
    /\ out' = [xout |-> sep_ppf(in.xmax, in.y, in.n, in.frac, in.nfrac)]
    /\ UNCHANGED in

PpfNext == PpfCall

SpecPpf == PpfInit /\ [][PpfNext]_vars

(***************************************************************************)
(* C1.  What the spec says sep_ppf computes, written from the spec.        *)
(***************************************************************************)
RECURSIVE Cum(_, _)
Cum(y, k) == IF k = 0 THEN RZero ELSE RAdd(Cum(y, k - 1), y[k])

\* 0-based bin indices whose cumulative sum y[0]+...+y[i] reaches the target
PpfReached(y, n, targ) == {i \in 0..(n - 1) : RGe(Cum(y, i + 1), targ)}

PpfMin(S) == CHOOSE i \in S : \A k \in S : i <= k

PpfClaimOk(j) ==
    LET y == in.y
        n == in.n
        total == Cum(y, n)
        targ == RMul(in.frac[j], total)
        S == PpfReached(y, n, targ)
        x == out.xout[j]
    IN  /\ RLe(targ, RZero) => x = RZero
        /\ (RGt(targ, RZero) /\ S # {}) =>
              LET i == PpfMin(S)
              IN  x = RMul(RDiv(in.xmax, RInt(n)),
                           RAdd(RInt(i), RDiv(RSub(targ, Cum(y, i)), y[i + 1])))
        /\ (RGt(targ, RZero) /\ S = {}) => x = in.xmax

\* C1: for every target fraction, sep_ppf interpolates inside the smallest bin
\* (the last bin included) whose cumulative sum reaches f*total, returns 0 when
\* f*total <= 0, and returns xmax only when no bin reaches the target.
C1_PpfInterpolates ==
    pc = "sep_ppf" => \A j \in 1..in.nfrac : PpfClaimOk(j)

(***************************************************************************)
(* Flag bits (sep.h) are modelled as a set of names: |= is set union.      *)
(***************************************************************************)
SEP_APER_TRUNC == "SEP_APER_TRUNC"
SEP_APER_HASMASKED == "SEP_APER_HASMASKED"
SEP_APER_ALLMASKED == "SEP_APER_ALLMASKED"
SEP_APER_NONPOSITIVE == "SEP_APER_NONPOSITIVE"

(***************************************************************************)
(* boxextent (aper.c 90-118).                                              *)
(***************************************************************************)
Half == Rat(1, 2)
C_1_4999999 == Rat(14999999, 10000000)

boxextent(x, y, rx, ry, w, h, flag) ==
    LET xmin0 == CInt(RAdd(RSub(x, rx), Half))
        xmax0 == CInt(RAdd(RAdd(x, rx), C_1_4999999))
        ymin0 == CInt(RAdd(RSub(y, ry), Half))
        ymax0 == CInt(RAdd(RAdd(y, ry), C_1_4999999))
    IN  [xmin |-> IF xmin0 < 0 THEN 0 ELSE xmin0,
         xmax |-> IF xmax0 > w THEN w ELSE xmax0,
         ymin |-> IF ymin0 < 0 THEN 0 ELSE ymin0,
         ymax |-> IF ymax0 > h THEN h ELSE ymax0,
         flag |-> flag \cup (IF xmin0 < 0 \/ xmax0 > w \/ ymin0 < 0 \/ ymax0 > h
                             THEN {SEP_APER_TRUNC} ELSE {})]

BoxMaxW == 2        \* boxextent: the image is 1..BoxMaxW pixels wide and high
BoxMaxR == 2        \* boxextent: radii are 0..BoxMaxR, in steps of 1/BoxDen
BoxDen == 2         \* boxextent: centres and radii are multiples of 1/BoxDen
BoxMargin == 2      \* boxextent: centres lie up to BoxMargin pixels off the image

BoxCentres == {Rat(k, BoxDen) : k \in (-BoxMargin * BoxDen)..((BoxMaxW + BoxMargin) * BoxDen)}
BoxRadii == {Rat(k, BoxDen) : k \in 0..(BoxMaxR * BoxDen)}

BoxInit ==
    /\ pc = "ready"
    /\ \E x \in BoxCentres, y \in BoxCentres, rx \in BoxRadii, ry \in BoxRadii,
          w \in 1..BoxMaxW, h \in 1..BoxMaxW :
          in = [x |-> x, y |-> y, rx |-> rx, ry |-> ry, w |-> w, h |-> h]
    /\ out = [xmin |-> 0, xmax |-> 0, ymin |-> 0, ymax |-> 0, flag |-> {}]

BoxCall ==
    /\ pc = "ready"
    /\ pc' = "boxextent"
    /\ out' = boxextent(in.x, in.y, in.rx, in.ry, in.w, in.h, out.flag)
    /\ UNCHANGED in

BoxNext == BoxCall

SpecBox == BoxInit /\ [][BoxNext]_vars

(***************************************************************************)
(* C2.  The geometric box of the spec: floor on both ends.                 *)
(***************************************************************************)
GeomLo(c, r) == RFloor(RAdd(RSub(c, r), Half))
GeomHi(c, r) == RFloor(RAdd(RAdd(c, r), C_1_4999999))
Clamp(v, lo, hi) == IF v < lo THEN lo ELSE IF v > hi THEN hi ELSE v

GeomBeyond ==
    \/ GeomLo(in.x, in.rx) < 0 \/ GeomHi(in.x, in.rx) > in.w
    \/ GeomLo(in.y, in.ry) < 0 \/ GeomHi(in.y, in.ry) > in.h

\* C2: boxextent sets SEP_APER_TRUNC iff the unclipped box
\* [floor(x-rx+0.5), floor(x+rx+1.5-eps)) x [floor(y-ry+0.5), floor(y+ry+1.5-eps))
\* extends beyond [0,w) x [0,h); in particular a box whose true lower bound
\* is -1 sets the flag.
C2_TruncIffBoxBeyondImage ==
    pc = "boxextent" => ((SEP_APER_TRUNC \in out.flag) <=> GeomBeyond)

\* The last sentence of C2: the returned bounds are the geometric bounds
\* clamped to the image.
C2_BoundsAreClampedGeomBox ==
    pc = "boxextent" =>
        /\ out.xmin = Clamp(GeomLo(in.x, in.rx), 0, in.w)
        /\ out.xmax = Clamp(GeomHi(in.x, in.rx), 0, in.w)
        /\ out.ymin = Clamp(GeomLo(in.y, in.ry), 0, in.h)
        /\ out.ymax = Clamp(GeomHi(in.y, in.ry), 0, in.h)

(***************************************************************************)
(* sqrt, atan, cos and sin of math.h.                                      *)
(*                                                                         *)
(* sqrt is exact on the square of a rational and rounded down to a         *)
(* multiple of 1/SqrtDen elsewhere.  An angle is a record [k, t] that      *)
(* stands for k*(pi/8) + atan(t)/2, so that atan(v)/2, + PI/2 and - PI of  *)
(* sep_ellipse_axes are exact; the angles used keep k in {-4,-2,0,2,4}.    *)
(***************************************************************************)
SqrtDen == 100

\* the integer square root of n >= 0, the k with k*k <= n < (k+1)*(k+1), found
\* without recursion: first the block of 64 that holds it, then k in the block;
\* 46340 is the largest k whose square TLC can compute
ISqrt(n) ==
    IF n >= 46336 * 46336
    THEN CHOOSE k \in 46336..46340 :
             k * k <= n /\ (k = 46340 \/ n < (k + 1) * (k + 1))
    ELSE LET h == CHOOSE b \in 0..723 :
                      (64 * b) * (64 * b) <= n /\ n < (64 * (b + 1)) * (64 * (b + 1))
         IN  CHOOSE k \in (64 * h)..(64 * h + 63) :
                 k * k <= n /\ n < (k + 1) * (k + 1)

IsSquare(n) == ISqrt(n) * ISqrt(n) = n

RSqrt(q) ==
    IF IsSquare(q[1]) /\ IsSquare(q[2])
    THEN Rat(ISqrt(q[1]), ISqrt(q[2]))
    ELSE Rat(ISqrt((q[1] * SqrtDen * SqrtDen) \div q[2]), SqrtDen)

Ang(k, t) == [k |-> k, t |-> t]
AngZero == Ang(0, RZero)
PI == Ang(8, RZero)
PI_2 == Ang(4, RZero)
AngAdd(th, ph) == Ang(th.k + ph.k, th.t)      \* ph is a multiple of pi/8
AngSub(th, ph) == Ang(th.k - ph.k, th.t)

\* the sign of m*(pi/8) + atan(t)/2, where atan(t)/2 lies in (-pi/4, pi/4)
AngSign(m, t) ==
    IF m >= 2 THEN 1
    ELSE IF m <= -2 THEN -1
    ELSE IF m = 0 THEN (IF RGt(t, RZero) THEN 1 ELSE IF t = RZero THEN 0 ELSE -1)
    ELSE IF m = 1 THEN (IF RGt(t, RInt(-1)) THEN 1 ELSE IF t = RInt(-1) THEN 0 ELSE -1)
    ELSE (IF RGt(t, ROne) THEN 1 ELSE IF t = ROne THEN 0 ELSE -1)

\* th > ph, ph a multiple of pi/8
AngGt(th, ph) == AngSign(th.k - ph.k, th.t) > 0

\* atan(v)/2.
AngHalfAtan(v) == Ang(0, v)

\* cos(2*th) and sin(2*th) for th = k*(pi/8) + atan(t)/2, k even
Cos2x(th) ==
    LET c == RDiv(ROne, RSqrt(RAdd(ROne, RMul(th.t, th.t))))
        s == RMul(th.t, c)
        r == th.k % 8
    IN  IF r = 0 THEN c ELSE IF r = 2 THEN RNeg(s) ELSE IF r = 4 THEN RNeg(c) ELSE s

Sin2x(th) ==
    LET c == RDiv(ROne, RSqrt(RAdd(ROne, RMul(th.t, th.t))))
        s == RMul(th.t, c)
        r == th.k % 8
    IN  IF r = 0 THEN s ELSE IF r = 2 THEN c ELSE IF r = 4 THEN RNeg(s) ELSE RNeg(c)

\* costheta*costheta, sintheta*sintheta, costheta*sintheta
CosCos(th) == RMul(Half, RAdd(ROne, Cos2x(th)))
SinSin(th) == RMul(Half, RSub(ROne, Cos2x(th)))
CosSin(th) == RMul(Half, Sin2x(th))

RETURN_OK == "RETURN_OK"
NON_ELLIPSE_PARAMS == "NON_ELLIPSE_PARAMS"

(***************************************************************************)
(* sep_ellipse_axes (aper.c 44-68): a, b, theta are the caller's memory,   *)
(* returned as it is left.                                                 *)
(***************************************************************************)
\* if ((cxx*cyy - cxy*cxy/4. <= 0.) || (p <= 0.))
axes_bad_NoQuarter(cxx, cyy, cxy) ==
    \/ RLe(RSub(RMul(cxx, cyy), RMul(cxy, cxy)), RZero)
    \/ RLe(RAdd(cxx, cyy), RZero)

axes_bad(cxx, cyy, cxy) ==
    \/ RLe(RSub(RMul(cxx, cyy), RDiv(RMul(cxy, cxy), RInt(4))), RZero)
    \/ RLe(RAdd(cxx, cyy), RZero)

\* lines 61-65
axes_theta(cxx, cyy, cxy) ==
    LET q == RSub(cxx, cyy)
        th0 == IF cxy = RZero THEN AngZero
               ELSE IF q = RZero THEN AngZero ELSE AngHalfAtan(RDiv(cxy, q))
        th1 == IF RGt(cxx, cyy) THEN AngAdd(th0, PI_2) ELSE th0
    IN  IF AngGt(th1, PI_2) THEN AngSub(th1, PI) ELSE th1

sep_ellipse_axes(cxx, cyy, cxy, a, b, theta) ==
    LET p == RAdd(cxx, cyy)
        q == RSub(cxx, cyy)
        t == RSqrt(RAdd(RMul(q, q), RMul(cxy, cxy)))
    IN  IF axes_bad(cxx, cyy, cxy)
        THEN [status |-> NON_ELLIPSE_PARAMS, a |-> a, b |-> b, theta |-> theta]
        ELSE [status |-> RETURN_OK,
              a |-> RSqrt(RDiv(RInt(2), RSub(p, t))),
              b |-> RSqrt(RDiv(RInt(2), RAdd(p, t))),
              theta |-> axes_theta(cxx, cyy, cxy)]

(***************************************************************************)
(* sep_ellipse_coeffs (aper.c 70-81).                                      *)
(***************************************************************************)
sep_ellipse_coeffs(a, b, theta) ==
    LET aa == RMul(a, a)
        bb == RMul(b, b)
    IN  [cxx |-> RAdd(RDiv(CosCos(theta), aa), RDiv(SinSin(theta), bb)),
         cyy |-> RAdd(RDiv(SinSin(theta), aa), RDiv(CosCos(theta), bb)),
         cxy |-> RMul(RMul(RInt(2), CosSin(theta)),
                      RSub(RDiv(ROne, aa), RDiv(ROne, bb)))]

(***************************************************************************)
(* The ellipse conversions as a state machine.  The caller either holds    *)
(* (a, b, theta) and calls sep_ellipse_coeffs and then sep_ellipse_axes on *)
(* the result, or holds coefficients and calls sep_ellipse_axes.           *)
(***************************************************************************)
EllMaxAxis == 2     \* semi-axes are k/EllDen, k = 1..EllMaxAxis*EllDen
EllDen == 2
CoefMax == 4        \* coefficients are k/CoefDen, k = -CoefMax..CoefMax
CoefDen == 2

\* tan(2*theta) of the position angles tried; 1 + t^2 is a square
EllTans == {RZero, Rat(3, 4), Rat(-3, 4), Rat(4, 3), Rat(-4, 3)}

\* the position angles in (-pi/2, pi/2]
EllThetas ==
    {Ang(0, t) : t \in EllTans}
        \cup {Ang(4, t) : t \in {u \in EllTans : RLe(u, RZero)}}
        \cup {Ang(-4, t) : t \in {u \in EllTans : RGt(u, RZero)}}
        \cup {Ang(2, RZero), Ang(-2, RZero)}

EllAxes == {Rat(k, EllDen) : k \in 1..(EllMaxAxis * EllDen)}
EllCoefs == {Rat(k, CoefDen) : k \in (-CoefMax)..CoefMax}

Unset == "unset"
NoOut == [status |-> Unset, a |-> Unset, b |-> Unset, theta |-> Unset]

EllInit ==
    /\ pc = "ready"
    /\ \/ \E a \in EllAxes, b \in EllAxes, theta \in EllThetas :
            /\ RGe(a, b)
            /\ in = [a |-> a, b |-> b, theta |-> theta,
                     cxx |-> Unset, cyy |-> Unset, cxy |-> Unset]
       \/ \E cxx \in EllCoefs, cyy \in EllCoefs, cxy \in EllCoefs :
            in = [a |-> Unset, b |-> Unset, theta |-> Unset,
                  cxx |-> cxx, cyy |-> cyy, cxy |-> cxy]
    /\ out = NoOut

EllCoeffsCall ==
    /\ pc = "ready"
    /\ in.a # Unset
    /\ pc' = "sep_ellipse_coeffs"
    /\ in' = [a |-> in.a, b |-> in.b, theta |-> in.theta]
                @@ sep_ellipse_coeffs(in.a, in.b, in.theta)
    /\ UNCHANGED out

EllAxesCall ==
    /\ \/ pc = "sep_ellipse_coeffs"
       \/ pc = "ready" /\ in.a = Unset
    /\ pc' = "sep_ellipse_axes"
    /\ out' = sep_ellipse_axes(in.cxx, in.cyy, in.cxy, out.a, out.b, out.theta)
    /\ UNCHANGED in

EllNext == EllCoeffsCall \/ EllAxesCall

SpecEllipse == EllInit /\ [][EllNext]_vars

EllRoundTripOk ==
    /\ out.status = RETURN_OK
    /\ out.a = in.a
    /\ out.b = in.b
    /\ out.theta = in.theta

\* C3: for a >= b > 0 and theta in (-pi/2, pi/2], sep_ellipse_axes applied to
\* the output of sep_ellipse_coeffs(a, b, theta) returns RETURN_OK and gives
\* back (a, b, theta); stated here for a > b, where the position angle is
\* determined by the ellipse, theta = +-pi/4 (cxx = cyy, cxy # 0) included.
C3_EllipseRoundTrip ==
    (pc = "sep_ellipse_axes" /\ in.a # Unset /\ RGt(in.a, in.b)) => EllRoundTripOk

\* The same over all of a >= b, the circles a = b included.
C3_EllipseRoundTripWithCircles ==
    (pc = "sep_ellipse_axes" /\ in.a # Unset) => EllRoundTripOk

\* Where the round trip does hold: a > b and cxx # cyy.
C3_EllipseRoundTripOffDiagonal ==
    (pc = "sep_ellipse_axes" /\ in.a # Unset /\ RGt(in.a, in.b)
        /\ in.theta.k \notin {2, -2}) => EllRoundTripOk

\* theta in (-pi/2, pi/2]
AngInRange(th) == AngSign(th.k + 4, th.t) > 0 /\ ~AngGt(th, PI_2)

\* C4: sep_ellipse_axes returns NON_ELLIPSE_PARAMS iff cxx*cyy - cxy^2/4 <= 0
\* or cxx + cyy <= 0, and then writes none of *a, *b, *theta; otherwise it
\* returns RETURN_OK with a >= b > 0 and theta in (-pi/2, pi/2].
C4_AxesErrorIffNotEllipse ==
    pc = "sep_ellipse_axes" =>
        LET bad == \/ RLe(RSub(RMul(RInt(4), RMul(in.cxx, in.cyy)),
                               RMul(in.cxy, in.cxy)), RZero)
                   \/ RLe(RAdd(in.cxx, in.cyy), RZero)
        IN  /\ out.status \in {RETURN_OK, NON_ELLIPSE_PARAMS}
            /\ (out.status = NON_ELLIPSE_PARAMS) <=> bad
            /\ bad => (out.a = Unset /\ out.b = Unset /\ out.theta = Unset)
            /\ ~bad => /\ RGe(out.a, out.b)
                       /\ RGt(out.b, RZero)
                       /\ AngInRange(out.theta)

\* the case of C4: both outcomes, on coefficients given directly
C4_Witness_Rejected ==
    /\ pc = "sep_ellipse_axes"
    /\ in.a = Unset
    /\ out.status = NON_ELLIPSE_PARAMS
    /\ RGt(RAdd(in.cxx, in.cyy), RZero)
    /\ in.cxy # RZero

(***************************************************************************)
(* Memory.  A buffer is a function on the element offsets 0..len-1; NULL   *)
(* is the buffer with no element.  Status codes are names.                 *)
(***************************************************************************)
NULL == [p \in {} |-> RZero]
NoScan == [sum |-> NULL, sumvar |-> NULL, area |-> NULL, maskarea |-> NULL]
ILLEGAL_APER_PARAMS == "ILLEGAL_APER_PARAMS"
ILLEGAL_SUBPIX == "ILLEGAL_SUBPIX"
UNSUPPORTED_PIXEL_FORMAT == "UNSUPPORTED_PIXEL_FORMAT"
SEP_ERROR_IS_VAR == "SEP_ERROR_IS_VAR"
SEP_ERROR_IS_ARRAY == "SEP_ERROR_IS_ARRAY"
SEP_MASK_IGNORE == "SEP_MASK_IGNORE"

\* get_converter is not part of aper.c; from spec section 6: a recognised
\* encoding tag resolves to a converter, any other tag fails.  The converter
\* returns the element's value.
SupportedDtypes == {"SEP_TFLOAT", "SEP_TINT", "SEP_TDOUBLE", "SEP_TBYTE"}
get_converter(dtype) ==
    IF dtype \in SupportedDtypes THEN RETURN_OK ELSE UNSUPPORTED_PIXEL_FORMAT

\* memset(buf, 0, n*sizeof(double))
Memset0(buf, n) == [i \in DOMAIN buf |-> IF i < n THEN RZero ELSE buf[i]]

\* sqrt(a) < c and sqrt(a) > c for rationals a >= 0 and c, decided exactly
SqrtLt(a, c) == RGt(c, RZero) /\ RLt(RDiv(a, c), c)
SqrtGt(a, c) ==
    \/ RLt(c, RZero)
    \/ c = RZero /\ RGt(a, RZero)
    \/ RGt(c, RZero) /\ RGt(RDiv(a, c), c)

\* (int)(sqrt(a)*stepdens), stepdens = 1/step, step > 0
BinOf(a, step) == ISqrt(RFloor(RDiv(a, RMul(step, step))))

(***************************************************************************)
(* sep_sum_circann_multi (aper.c 312-513).                                 *)
(*                                                                         *)
(* a is the record of the arguments, m the caller's output memory: the     *)
(* arrays sum, sumvar, area, maskarea and *flag.  The result is m as the   *)
(* call leaves it, with the returned status; reads collects the elements   *)
(* of data, error and mask the call dereferenced and scan holds the four   *)
(* arrays as they stand at the end of the pixel loop.                      *)
(***************************************************************************)
C_0_7072 == Rat(7072, 10000)
C_1_5 == Rat(3, 2)

\* lines 342-360 and 370-382: the locals that stay fixed during the scan
multi_init(a) ==
    LET scale == RDiv(ROne, RInt(a.subpix))
        r_out == RAdd(a.rmax, C_1_5)
        step == RDiv(a.rmax, RInt(a.n))
        errisarray == (SEP_ERROR_IS_ARRAY \in a.inflag) /\ a.error # NULL
        errisstd == SEP_ERROR_IS_VAR \notin a.inflag
        scalar == a.error # NULL /\ ~errisarray
        v0 == IF scalar THEN a.error[0] ELSE RZero
    IN  [scale |-> scale,
         scale2 |-> RMul(scale, scale),
         offset |-> RMul(Half, RSub(scale, ROne)),
         r_out |-> r_out,
         r_out2 |-> RMul(r_out, r_out),
         step |-> step,
         prevbinmargin |-> C_0_7072,
         nextbinmargin |-> RSub(step, C_0_7072),
         errisarray |-> errisarray,
         errisstd |-> errisstd,
         varpix |-> IF scalar /\ errisstd THEN RMul(v0, v0) ELSE v0,
         reads |-> IF scalar THEN {<<"error", 0>>} ELSE {}]

\* lines 439-449 and 457-467: add weight wt of the pixel to bin j
multi_add(a, acc, j, wt, pix, varpix, ismasked) ==
    IF j < a.n
    THEN IF ismasked
         THEN [acc EXCEPT !.maskarea[j] = RAdd(@, wt), !.area[j] = RAdd(@, wt)]
         ELSE [acc EXCEPT !.sum[j] = RAdd(@, RMul(wt, pix)),
                          !.sumvar[j] = RAdd(@, RMul(wt, varpix)),
                          !.area[j] = RAdd(@, wt)]
    ELSE acc

\* lines 436-450: the samples sx of one row of samples; dx1 steps by scale
RECURSIVE multi_sx(_, _, _, _, _, _, _, _, _)
multi_sx(a, c, acc, dx1, dy2, pix, varpix, ismasked, sx) ==
    IF sx = 0 THEN acc
    ELSE Strict(acc,
         multi_sx(a, c,
             multi_add(a, acc, BinOf(RAdd(RMul(dx1, dx1), dy2), c.step),
                       c.scale2, pix, varpix, ismasked),
             RAdd(dx1, c.scale), dy2, pix, varpix, ismasked, sx - 1))

\* lines 432-451: the rows sy of samples of one pixel; dy steps by scale
RECURSIVE multi_oversample(_, _, _, _, _, _, _, _, _)
multi_oversample(a, c, acc, dx, dy, pix, varpix, ismasked, sy) ==
    IF sy = 0 THEN acc
    ELSE LET row == multi_sx(a, c, acc, dx, RMul(dy, dy), pix, varpix, ismasked,
                             a.subpix)
         IN  Strict(row,
             multi_oversample(a, c, row, dx, RAdd(dy, c.scale), pix, varpix,
                              ismasked, sy - 1))

\* lines 401-469: one pixel of the box, at element offset pos
multi_pixel(a, c, acc, ix, iy, pos) ==
    LET dx == RSub(RInt(ix), a.x)
        dy == RSub(RInt(iy), a.y)
        rpix2 == RAdd(RMul(dx, dx), RMul(dy, dy))
    IN  IF ~RLt(rpix2, c.r_out2) THEN acc
        ELSE
        LET pix == a.data[pos]
            v == IF c.errisarray THEN a.error[pos] ELSE acc.varpix
            varpix == IF c.errisarray /\ c.errisstd THEN RMul(v, v) ELSE v
            masked == a.mask # NULL /\ RGt(a.mask[pos], a.maskthresh)
            ismasked == IF a.mask # NULL THEN masked ELSE acc.ismasked
            rd == {<<"data", pos>>}
                    \cup (IF c.errisarray THEN {<<"error", pos>>} ELSE {})
                    \cup (IF a.mask # NULL THEN {<<"mask", pos>>} ELSE {})
            acc1 == [acc EXCEPT !.varpix = varpix, !.ismasked = ismasked,
                                !.reads = @ \cup rd,
                                !.flag = IF masked THEN @ \cup {SEP_APER_HASMASKED}
                                         ELSE @]
            j == BinOf(rpix2, c.step)
            jstep == RMul(RInt(j), c.step)
            \* d = fmod(rpix, step); d < prevbinmargin || d > nextbinmargin
            close == \/ SqrtLt(rpix2, RAdd(jstep, c.prevbinmargin))
                     \/ SqrtGt(rpix2, RAdd(jstep, c.nextbinmargin))
        IN  IF close
            THEN multi_oversample(a, c, acc1, RAdd(dx, c.offset), RAdd(dy, c.offset),
                                  pix, varpix, ismasked, a.subpix)
            ELSE multi_add(a, acc1, j, ROne, pix, varpix, ismasked)

\* lines 391 and 617: pos = (iy%h) * w + xmin, the element offset of a row start
\* (on images whose offsets fit an int; Int32Fits and row_address below)
row_start(iy, h, w, xmin) == (iy % h) * w + xmin

\* lines 399-476: the pixels ix of one row; the element offset pos steps by one
RECURSIVE multi_row(_, _, _, _, _, _, _)
multi_row(a, c, box, acc, iy, ix, pos) ==
    IF ix >= box.xmax THEN acc
    ELSE Strict(acc, multi_row(a, c, box, multi_pixel(a, c, acc, ix, iy, pos),
                               iy, ix + 1, pos + 1))

\* lines 387-477: the rows iy of the box, each starting at (iy%h)*w + xmin
RECURSIVE multi_loop(_, _, _, _, _)
multi_loop(a, c, box, acc, iy) ==
    IF iy >= box.ymax THEN acc
    ELSE LET row == multi_row(a, c, box, acc, iy, box.xmin,
                              row_start(iy, a.h, a.w, box.xmin))
         IN  Strict(row, multi_loop(a, c, box, row, iy + 1))

\* lines 480-495: correct for masked values
multi_maskcorr_InverseScale(a, acc) ==
    IF a.mask = NULL THEN acc
    ELSE IF SEP_MASK_IGNORE \in a.inflag
    THEN [acc EXCEPT !.area = [j \in DOMAIN @ |->
                                  IF j < a.n THEN RSub(@[j], acc.maskarea[j]) ELSE @[j]]]
    ELSE LET tmp(j) == IF acc.area[j] = acc.maskarea[j] THEN RZero
                       ELSE RDiv(RSub(acc.area[j], acc.maskarea[j]), acc.area[j])
         IN  [acc EXCEPT
                !.sum = [j \in DOMAIN @ |-> IF j < a.n THEN RMul(@[j], tmp(j)) ELSE @[j]],
                !.sumvar = [j \in DOMAIN @ |-> IF j < a.n THEN RMul(@[j], tmp(j)) ELSE @[j]]]

multi_maskcorr(a, acc) ==
    IF a.mask = NULL THEN acc
    ELSE IF SEP_MASK_IGNORE \in a.inflag
    THEN [acc EXCEPT !.area = [j \in DOMAIN @ |->
                                  IF j < a.n THEN RSub(@[j], acc.maskarea[j]) ELSE @[j]]]
    ELSE LET tmp(j) == IF acc.area[j] = acc.maskarea[j] THEN RZero
                       ELSE RDiv(acc.area[j], RSub(acc.area[j], acc.maskarea[j]))
         IN  [acc EXCEPT
                !.sum = [j \in DOMAIN @ |-> IF j < a.n THEN RMul(@[j], tmp(j)) ELSE @[j]],
                !.sumvar = [j \in DOMAIN @ |-> IF j < a.n THEN RMul(@[j], tmp(j)) ELSE @[j]]]

\* lines 497-501: add poisson noise, only if gain > 0
multi_poisson(a, acc) ==
    IF RGt(a.gain, RZero)
    THEN [acc EXCEPT !.sumvar = [j \in DOMAIN @ |->
                        IF j < a.n /\ RGt(acc.sum[j], RZero)
                        THEN RAdd(@[j], RDiv(acc.sum[j], a.gain)) ELSE @[j]]]
    ELSE acc

\* lines 362-368: get data converter(s) for input array(s)
multi_converters(a) ==
    IF get_converter(a.dtype) # RETURN_OK THEN get_converter(a.dtype)
    ELSE IF a.error # NULL /\ get_converter(a.edtype) # RETURN_OK
    THEN get_converter(a.edtype)
    ELSE IF a.mask # NULL /\ get_converter(a.mdtype) # RETURN_OK
    THEN get_converter(a.mdtype)
    ELSE RETURN_OK

\* lines 335-340 and 346: clear results arrays, *flag = 0
multi_clear(a, m) ==
    [m EXCEPT !.sum = Memset0(@, a.n),
              !.sumvar = Memset0(@, a.n),
              !.area = Memset0(@, a.n),
              !.maskarea = IF a.mask # NULL THEN Memset0(@, a.n) ELSE @,
              !.flag = {}]

Buffers(m) == [sum |-> m.sum, sumvar |-> m.sumvar, area |-> m.area,
               maskarea |-> m.maskarea]

\* lines 384-477: box extent and the pixel loop
multi_scan(a, m) ==
    LET c == multi_init(a)
        box == boxextent(a.x, a.y, c.r_out, c.r_out, a.w, a.h, m.flag)
        acc0 == [sum |-> m.sum, sumvar |-> m.sumvar, area |-> m.area,
                 maskarea |-> m.maskarea, flag |-> box.flag, reads |-> c.reads,
                 varpix |-> c.varpix, ismasked |-> FALSE]
    IN  multi_loop(a, c, box, acc0, box.ymin)

MultiResult(a, acc, status) ==
    LET fin == multi_poisson(a, multi_maskcorr(a, acc))
    IN  [status |-> status,
         sum |-> fin.sum, sumvar |-> fin.sumvar, area |-> fin.area,
         maskarea |-> fin.maskarea, flag |-> fin.flag,
         reads |-> fin.reads, scan |-> Buffers(acc)]

\* lines 362-513 with "return status" only at the end of the function
multi_body_NoEarlyReturn(a, m1, status) == MultiResult(a, multi_scan(a, m1), status)

\* lines 362-513: return on a converter failure, else scan and finish
multi_body(a, m1, status) ==
    IF status # RETURN_OK
    THEN [m1 EXCEPT !.status = status, !.reads = {}, !.scan = NoScan]
    ELSE MultiResult(a, multi_scan(a, m1), status)

sep_sum_circann_multi(a, m) ==
    IF RLt(a.rmax, RZero) \/ a.n < 1
    THEN [m EXCEPT !.status = ILLEGAL_APER_PARAMS, !.reads = {}, !.scan = NoScan]
    ELSE IF a.subpix < 1
    THEN [m EXCEPT !.status = ILLEGAL_SUBPIX, !.reads = {}, !.scan = NoScan]
    ELSE multi_body(a, multi_clear(a, m), multi_converters(a))

(***************************************************************************)
(* Calls of sep_sum_circann_multi.  The image is MultiW x MultiH; pixel    *)
(* offset p holds 2^p, so that a sum tells which pixels went into it.      *)
(***************************************************************************)
MultiW == 3
MultiH == 3
MultiBufLen == 2    \* the caller's arrays hold MultiBufLen doubles
MultiMaxSubpix == 2
MultiMaxR == 3      \* rmax is k/2, k = 1..MultiMaxR, or 1/4, or -1

Garbage == RInt(7)  \* what an output buffer holds before its first call

MultiOffsets == 0..(MultiW * MultiH - 1)
MultiData == [p \in MultiOffsets |-> RInt(2 ^ p)]
MultiErrArray == [p \in MultiOffsets |-> RInt(1 + (p % 2))]
MultiErrScalar == [p \in {0} |-> RInt(2)]
MultiMasks ==
    {NULL, [p \in MultiOffsets |-> RZero], [p \in MultiOffsets |-> ROne],
     [p \in MultiOffsets |-> IF p % 2 = 0 THEN ROne ELSE RZero],
     [p \in MultiOffsets |-> IF p = 4 THEN ROne ELSE RZero]}
\* error, edtype, inflag
MultiErrors ==
    {<<NULL, "SEP_TFLOAT", {}>>,
     <<NULL, "SEP_TFLOAT", {SEP_ERROR_IS_ARRAY}>>,
     <<MultiErrScalar, "SEP_TFLOAT", {}>>,
     <<MultiErrScalar, "?", {SEP_ERROR_IS_VAR}>>,
     <<MultiErrArray, "SEP_TDOUBLE", {SEP_ERROR_IS_ARRAY, SEP_ERROR_IS_VAR}>>}

MultiMem0(v) ==
    [status |-> Unset, reads |-> {}, scan |-> NoScan, flag |-> {SEP_APER_ALLMASKED},
     sum |-> [j \in 0..(MultiBufLen - 1) |-> v],
     sumvar |-> [j \in 0..(MultiBufLen - 1) |-> v],
     area |-> [j \in 0..(MultiBufLen - 1) |-> v],
     maskarea |-> [j \in 0..(MultiBufLen - 1) |-> v]]

MultiArgs(e, mask, mdtype, dtype, gain, ign, x, y, rmax, n, subpix) ==
    [data |-> MultiData, error |-> e[1], mask |-> mask,
     dtype |-> dtype, edtype |-> e[2], mdtype |-> mdtype,
     w |-> MultiW, h |-> MultiH, maskthresh |-> RZero, gain |-> gain,
     inflag |-> e[3] \cup ign, x |-> x, y |-> y, rmax |-> rmax, n |-> n,
     subpix |-> subpix]

(***************************************************************************)
(* sep_flux_radius (aper.c 555-579).  The four buffers are locals; sumbuf  *)
(* is zero-initialised, the others hold whatever the stack holds.          *)
(***************************************************************************)
FLUX_RADIUS_BUFSIZE == 64

sep_flux_radius(a, m) ==
    LET idx == 0..(FLUX_RADIUS_BUFSIZE - 1)
        loc == [status |-> Unset, reads |-> {}, scan |-> NoScan, flag |-> m.flag,
                sum |-> [j \in idx |-> RZero],
                sumvar |-> [j \in idx |-> Garbage],
                area |-> [j \in idx |-> Garbage],
                maskarea |-> [j \in idx |-> Garbage]]
        res == sep_sum_circann_multi(
                   [a EXCEPT !.n = FLUX_RADIUS_BUFSIZE], loc)
        y == [i \in 1..FLUX_RADIUS_BUFSIZE |-> res.sum[i - 1]]
        xout == sep_ppf(a.rmax, y, FLUX_RADIUS_BUFSIZE, a.fluxfrac, a.n)
    IN  [status |-> res.status, flag |-> res.flag, reads |-> res.reads,
         r |-> [j \in DOMAIN m.r |-> IF j < a.n THEN xout[j + 1] ELSE m.r[j]]]

(***************************************************************************)
(* boxextent_ellipse (aper.c 121-134).                                     *)
(***************************************************************************)
boxextent_ellipse(x, y, cxx, cyy, cxy, r, w, h, flag) ==
    LET dx0 == RSub(cxx, RDiv(RMul(cxy, cxy), RMul(RInt(4), cyy)))
        dxlim == IF RGt(dx0, RZero) THEN RDiv(r, RSqrt(dx0)) ELSE RZero
        dy0 == RSub(cyy, RDiv(RMul(cxy, cxy), RMul(RInt(4), cxx)))
        dylim == IF RGt(dy0, RZero) THEN RDiv(r, RSqrt(dy0)) ELSE RZero
    IN  boxextent(x, y, dxlim, dylim, w, h, flag)

(***************************************************************************)
(* sep_kron_radius (aper.c 583-665).  BIG is the bad-pixel floor of        *)
(* sepcore.h; any value below every good pixel value serves.               *)
(***************************************************************************)
BIG == RInt(1000)

\* lines 625-641: one pixel of the box
kron_pixel_StrictInside(a, acc, ix, iy, pos) ==
    LET dx == RSub(RInt(ix), a.x)
        dy == RSub(RInt(iy), a.y)
        rpix2 == RAdd(RAdd(RMul(a.cxx, RMul(dx, dx)), RMul(a.cyy, RMul(dy, dy))),
                      RMul(a.cxy, RMul(dx, dy)))
        pix == a.data[pos]
        bad == RLt(pix, RNeg(BIG))
    IN  IF ~RLt(rpix2, RMul(a.r, a.r)) THEN acc
        ELSE IF bad \/ (a.mask # NULL /\ RGt(a.mask[pos], a.maskthresh))
        THEN [acc EXCEPT !.flag = @ \cup {SEP_APER_HASMASKED},
                         !.reads = @ \cup {<<"data", pos>>}
                                     \cup (IF ~bad THEN {<<"mask", pos>>} ELSE {})]
        ELSE [acc EXCEPT !.r1 = RAdd(@, RMul(RSqrt(rpix2), pix)),
                         !.v1 = RAdd(@, pix),
                         !.area = @ + 1,
                         !.reads = @ \cup {<<"data", pos>>}
                                     \cup (IF a.mask # NULL THEN {<<"mask", pos>>} ELSE {})]

kron_pixel(a, acc, ix, iy, pos) ==
    LET dx == RSub(RInt(ix), a.x)
        dy == RSub(RInt(iy), a.y)
        rpix2 == RAdd(RAdd(RMul(a.cxx, RMul(dx, dx)), RMul(a.cyy, RMul(dy, dy))),
                      RMul(a.cxy, RMul(dx, dy)))
        pix == a.data[pos]
        bad == RLt(pix, RNeg(BIG))
    IN  IF ~RLe(rpix2, RMul(a.r, a.r)) THEN acc
        ELSE IF bad \/ (a.mask # NULL /\ RGt(a.mask[pos], a.maskthresh))
        THEN [acc EXCEPT !.flag = @ \cup {SEP_APER_HASMASKED},
                         !.reads = @ \cup {<<"data", pos>>}
                                     \cup (IF ~bad THEN {<<"mask", pos>>} ELSE {})]
        ELSE [acc EXCEPT !.r1 = RAdd(@, RMul(RSqrt(rpix2), pix)),
                         !.v1 = RAdd(@, pix),
                         !.area = @ + 1,
                         !.reads = @ \cup {<<"data", pos>>}
                                     \cup (IF a.mask # NULL THEN {<<"mask", pos>>} ELSE {})]

\* lines 623-646: the pixels ix of one row
RECURSIVE kron_row(_, _, _, _, _, _)
kron_row(a, box, acc, iy, ix, pos) ==
    IF ix >= box.xmax THEN acc
    ELSE Strict(acc, kron_row(a, box, kron_pixel(a, acc, ix, iy, pos),
                              iy, ix + 1, pos + 1))

\* lines 613-647: the rows iy of the box, each starting at (iy%h)*w + xmin
RECURSIVE kron_loop(_, _, _, _)
kron_loop(a, box, acc, iy) ==
    IF iy >= box.ymax THEN acc
    ELSE LET row == kron_row(a, box, acc, iy, box.xmin,
                             row_start(iy, a.h, a.w, box.xmin))
         IN  Strict(row, kron_loop(a, box, row, iy + 1))

\* lines 649-662
kron_result(acc, m) ==
    IF acc.area = 0
    THEN [status |-> RETURN_OK, kronrad |-> RZero, reads |-> acc.reads,
          flag |-> acc.flag \cup {SEP_APER_ALLMASKED}]
    ELSE IF RLe(acc.r1, RZero) \/ RLe(acc.v1, RZero)
    THEN [status |-> RETURN_OK, kronrad |-> RZero, reads |-> acc.reads,
          flag |-> acc.flag \cup {SEP_APER_NONPOSITIVE}]
    ELSE [status |-> RETURN_OK, kronrad |-> RDiv(acc.r1, acc.v1), reads |-> acc.reads,
          flag |-> acc.flag]

sep_kron_radius(a, m) ==
    IF get_converter(a.dtype) # RETURN_OK
    THEN [m EXCEPT !.status = get_converter(a.dtype), !.flag = {}, !.reads = {}]
    ELSE IF a.mask # NULL /\ get_converter(a.mdtype) # RETURN_OK
    THEN [m EXCEPT !.status = get_converter(a.mdtype), !.flag = {}, !.reads = {}]
    ELSE LET box == boxextent_ellipse(a.x, a.y, a.cxx, a.cyy, a.cxy, a.r,
                                      a.w, a.h, {})
             acc0 == [r1 |-> RZero, v1 |-> RZero, area |-> 0, flag |-> box.flag,
                      reads |-> {}]
         IN  kron_result(kron_loop(a, box, acc0, box.ymin), m)

(***************************************************************************)
(* The three measurements as a state machine: the caller prepares the      *)
(* arguments and the output memory of one call (in.fn names the function)  *)
(* and the call runs.                                                      *)
(***************************************************************************)
MultiInit ==
    /\ pc = "ready"
    /\ \E e \in MultiErrors, mask \in MultiMasks, mdtype \in {"SEP_TBYTE", "?"},
          dtype \in {"SEP_TFLOAT", "?"}, gain \in {RZero, RInt(2)},
          ign \in {{}, {SEP_MASK_IGNORE}}, rmax \in {ROne, RInt(-1)},
          n \in 0..MultiBufLen, subpix \in 0..MultiMaxSubpix :
          in = [fn |-> "sep_sum_circann_multi"]
                 @@ MultiArgs(e, mask, mdtype, dtype, gain, ign, ROne, Half, rmax, n, subpix)
    /\ out \in {MultiMem0(Garbage), MultiMem0(RZero)}

MultiCall ==
    /\ pc = "ready"
    /\ in.fn = "sep_sum_circann_multi"
    /\ pc' = "sep_sum_circann_multi"
    /\ out' = sep_sum_circann_multi(in, out)
    /\ UNCHANGED in

FluxFracs == {<<Half>>, <<Rat(1, 4), ROne>>}

FluxInit ==
    /\ pc = "ready"
    /\ \E e \in MultiErrors, mask \in {NULL, [p \in MultiOffsets |-> IF p = 4 THEN ROne ELSE RZero]},
          mdtype \in {"SEP_TBYTE", "?"}, dtype \in {"SEP_TFLOAT", "?"},
          rmax \in {ROne, RInt(-1)}, subpix \in 0..1, frac \in FluxFracs :
          in = [fn |-> "sep_flux_radius", fluxfrac |-> frac]
                 @@ MultiArgs(e, mask, mdtype, dtype, RZero, {}, ROne, Half, rmax,
                              Len(frac), subpix)
    /\ out = [status |-> Unset, reads |-> {}, flag |-> {SEP_APER_ALLMASKED},
              r |-> [j \in 0..1 |-> Garbage]]

FluxCall ==
    /\ pc = "ready"
    /\ in.fn = "sep_flux_radius"
    /\ pc' = "sep_flux_radius"
    /\ out' = sep_flux_radius(in, out)
    /\ UNCHANGED in

KronW == 2
KronH == 2
KronOffsets == 0..(KronW * KronH - 1)
KronPix == {RNeg(RAdd(BIG, ROne)), RInt(-1), RInt(2)}
\* every pixel holds u, but one, which holds v
KronImages == {[p \in KronOffsets |-> IF p = k THEN v ELSE u] :
                  u \in KronPix, v \in KronPix, k \in KronOffsets}
KronMasks == {NULL, [p \in KronOffsets |-> RZero], [p \in KronOffsets |-> ROne],
              [p \in KronOffsets |-> IF p = 0 THEN ROne ELSE RZero]}
\* cxx, cyy, cxy, r
KronEllipses == {<<ROne, ROne, RZero, ROne>>, <<ROne, ROne, RZero, Rat(3, 2)>>,
                 <<ROne, RInt(4), RZero, ROne>>, <<ROne, ROne, Rat(6, 5), ROne>>}
KronCentres == {<<RZero, RZero>>, <<Half, Half>>, <<ROne, RZero>>, <<RInt(-2), RZero>>}

KronInit ==
    /\ pc = "ready"
    /\ \E data \in KronImages, mask \in KronMasks, mdtype \in {"SEP_TBYTE", "?"},
          dtype \in {"SEP_TFLOAT", "?"}, el \in KronEllipses, ctr \in KronCentres :
          in = [fn |-> "sep_kron_radius", data |-> data, mask |-> mask,
                dtype |-> dtype, mdtype |-> mdtype, w |-> KronW, h |-> KronH,
                maskthresh |-> RZero, x |-> ctr[1], y |-> ctr[2],
                cxx |-> el[1], cyy |-> el[2], cxy |-> el[3], r |-> el[4]]
    /\ out = [status |-> Unset, reads |-> {}, flag |-> {SEP_APER_NONPOSITIVE},
              kronrad |-> Garbage]

KronCall ==
    /\ pc = "ready"
    /\ in.fn = "sep_kron_radius"
    /\ pc' = "sep_kron_radius"
    /\ out' = sep_kron_radius(in, out)
    /\ UNCHANGED in

AperInit == MultiInit \/ FluxInit \/ KronInit
AperNext == MultiCall \/ FluxCall \/ KronCall
SpecAper == AperInit /\ [][AperNext]_vars

(***************************************************************************)
(* C5.  No partial output on failure: whenever sep_sum_circann_multi,      *)
(* sep_flux_radius or sep_kron_radius returns a nonzero status, no pixel   *)
(* of any buffer has been read, and every element of every caller-visible  *)
(* output (sum, sumvar, area, maskarea, flag, r, kronrad) holds either its *)
(* pre-call value or zero.                                                 *)
(***************************************************************************)
KeptOrZero(before, after) ==
    /\ DOMAIN after = DOMAIN before
    /\ \A j \in DOMAIN after : after[j] = before[j] \/ after[j] = RZero

C5Untouched(fn, before, after) ==
    /\ after.reads = {}
    /\ after.flag = before.flag \/ after.flag = {}
    /\ fn = "sep_sum_circann_multi" =>
          /\ KeptOrZero(before.sum, after.sum)
          /\ KeptOrZero(before.sumvar, after.sumvar)
          /\ KeptOrZero(before.area, after.area)
          /\ KeptOrZero(before.maskarea, after.maskarea)
    /\ fn = "sep_flux_radius" => KeptOrZero(before.r, after.r)
    /\ fn = "sep_kron_radius" =>
          after.kronrad = before.kronrad \/ after.kronrad = RZero

C5_NoPartialOutputOnFailure ==
    [][(pc = "ready" /\ pc' = in.fn /\ out'.status # RETURN_OK)
          => C5Untouched(in.fn, out, out')]_vars

\* a converter failure after the buffers were cleared: sum was zeroed, and
\* maskarea, no mask being given, still holds what it held before the call
C5_Witness_FailedAfterClear ==
    /\ pc = "sep_sum_circann_multi"
    /\ out.status = UNSUPPORTED_PIXEL_FORMAT
    /\ in.mask = NULL
    /\ in.n = MultiBufLen
    /\ \A j \in DOMAIN out.sum : out.sum[j] = RZero /\ out.maskarea[j] = Garbage

(***************************************************************************)
(* C6.  Mask correction of sep_sum_circann_multi when a mask is supplied.  *)
(* With A, M, S, V the values of area[j], maskarea[j], sum[j], sumvar[j]   *)
(* at the end of the scan: under SEP_MASK_IGNORE area[j] = A - M and       *)
(* sum[j], sumvar[j] stay S, V; under the rescale policy area[j] = A and   *)
(* sum[j], sumvar[j] are S*A/(A-M), V*A/(A-M), or exactly 0 when A = M.    *)
(* The Poisson term sum[j]/gain, which the function adds to sumvar[j]      *)
(* after the correction when gain > 0 and sum[j] > 0, comes on top.        *)
(***************************************************************************)
PoissonTerm(gain, sum) ==
    IF RGt(gain, RZero) /\ RGt(sum, RZero) THEN RDiv(sum, gain) ELSE RZero

C6BinOk(j) ==
    LET A == out.scan.area[j]
        M == out.scan.maskarea[j]
        S == out.scan.sum[j]
        V == out.scan.sumvar[j]
        csum == IF SEP_MASK_IGNORE \in in.inflag THEN S
                ELSE IF A = M THEN RZero
                ELSE RDiv(RMul(S, A), RSub(A, M))
        cvar == IF SEP_MASK_IGNORE \in in.inflag THEN V
                ELSE IF A = M THEN RZero
                ELSE RDiv(RMul(V, A), RSub(A, M))
    IN  /\ out.area[j] = (IF SEP_MASK_IGNORE \in in.inflag THEN RSub(A, M) ELSE A)
        /\ out.sum[j] = csum
        /\ out.sumvar[j] = RAdd(cvar, PoissonTerm(in.gain, csum))

C6_MaskCorrection ==
    (pc = "sep_sum_circann_multi" /\ out.status = RETURN_OK /\ in.mask # NULL)
        => \A j \in 0..(in.n - 1) : C6BinOk(j)

\* the rescale policy on a call with a partly masked bin, a wholly masked
\* bin being rescaled in a call too
C6_Witness_Rescaled ==
    /\ pc = "sep_sum_circann_multi"
    /\ out.status = RETURN_OK
    /\ in.mask # NULL
    /\ SEP_MASK_IGNORE \notin in.inflag
    /\ \E j \in 0..(in.n - 1) :
          /\ RLt(RZero, out.scan.maskarea[j])
          /\ RLt(out.scan.maskarea[j], out.scan.area[j])
          /\ RGt(out.scan.sum[j], RZero)
          /\ out.sum[j] # out.scan.sum[j]

(***************************************************************************)
(* C7.  sep_kron_radius, once the converters resolve, returns RETURN_OK.   *)
(* If no image pixel with rpix2 <= r^2 is unmasked and not below the       *)
(* bad-pixel floor, SEP_APER_ALLMASKED is set and kronrad = 0; otherwise   *)
(* if sum(radius*value) <= 0 or sum(value) <= 0, SEP_APER_NONPOSITIVE is   *)
(* set and kronrad = 0; otherwise neither flag is set and kronrad is       *)
(* sum(radius*value)/sum(value) over exactly the unmasked in-region        *)
(* pixels.  SEP_APER_HASMASKED is set iff an in-region pixel is excluded.  *)
(***************************************************************************)
RECURSIVE RSumOver(_, _)
RSumOver(S, f) ==
    IF S = {} THEN RZero
    ELSE LET p == CHOOSE q \in S : TRUE
         IN  RAdd(f[p], RSumOver(S \ {p}, f))

KronPixels == (0..(in.w - 1)) \X (0..(in.h - 1))
KronRpix2(p) ==
    LET dx == RSub(RInt(p[1]), in.x)
        dy == RSub(RInt(p[2]), in.y)
    IN  RAdd(RAdd(RMul(in.cxx, RMul(dx, dx)), RMul(in.cyy, RMul(dy, dy))),
             RMul(in.cxy, RMul(dx, dy)))
KronValue(p) == in.data[p[2] * in.w + p[1]]
KronRegion == {p \in KronPixels : RLe(KronRpix2(p), RMul(in.r, in.r))}
KronExcluded ==
    {p \in KronRegion :
        \/ RLt(KronValue(p), RNeg(BIG))
        \/ in.mask # NULL /\ RGt(in.mask[p[2] * in.w + p[1]], in.maskthresh)}
KronUsed == KronRegion \ KronExcluded
KronNum == RSumOver(KronUsed, [p \in KronUsed |-> RMul(RSqrt(KronRpix2(p)), KronValue(p))])
KronDen == RSumOver(KronUsed, [p \in KronUsed |-> KronValue(p)])
KronResolved ==
    /\ get_converter(in.dtype) = RETURN_OK
    /\ in.mask # NULL => get_converter(in.mdtype) = RETURN_OK

C7_KronDegenerateByFlags ==
    (pc = "sep_kron_radius" /\ KronResolved) =>
        /\ out.status = RETURN_OK
        /\ (SEP_APER_HASMASKED \in out.flag) <=> (KronExcluded # {})
        /\ IF KronUsed = {}
           THEN SEP_APER_ALLMASKED \in out.flag /\ out.kronrad = RZero
           ELSE IF RLe(KronNum, RZero) \/ RLe(KronDen, RZero)
           THEN SEP_APER_NONPOSITIVE \in out.flag /\ out.kronrad = RZero
           ELSE /\ SEP_APER_ALLMASKED \notin out.flag
                /\ SEP_APER_NONPOSITIVE \notin out.flag
                /\ out.kronrad = RDiv(KronNum, KronDen)

\* a radius measured with a pixel on the ellipse itself and a pixel excluded
C7_Witness_Measured ==
    /\ pc = "sep_kron_radius"
    /\ KronResolved
    /\ RGt(out.kronrad, RZero)
    /\ SEP_APER_HASMASKED \in out.flag
    /\ \E p \in KronUsed : KronRpix2(p) = RMul(in.r, in.r) /\ KronValue(p) # RZero

(***************************************************************************)
(* C8.  On every call of sep_sum_circann_multi that passes the parameter   *)
(* validation, elements 0..n-1 of sum, sumvar, area and maskarea are zero  *)
(* before the scan, whether or not a mask is supplied.                     *)
(***************************************************************************)
C8_AccumulatorsZeroedAtEntry ==
    [][(pc = "ready" /\ pc' = "sep_sum_circann_multi"
          /\ out'.status \notin {ILLEGAL_APER_PARAMS, ILLEGAL_SUBPIX})
          => \A j \in 0..(in.n - 1) :
                /\ multi_clear(in, out).sum[j] = RZero
                /\ multi_clear(in, out).sumvar[j] = RZero
                /\ multi_clear(in, out).area[j] = RZero
                /\ multi_clear(in, out).maskarea[j] = RZero]_vars

\* the consequence the caller sees: the four sequences do not depend on what
\* the buffers held before the call
C8_ResultsIndependentOfBuffers ==
    (pc = "sep_sum_circann_multi"
       /\ out.status \notin {ILLEGAL_APER_PARAMS, ILLEGAL_SUBPIX})
        => \A j \in 0..(in.n - 1) :
              LET z == sep_sum_circann_multi(in, MultiMem0(RZero))
              IN  /\ out.sum[j] = z.sum[j]
                  /\ out.sumvar[j] = z.sumvar[j]
                  /\ out.area[j] = z.area[j]
                  /\ out.maskarea[j] = z.maskarea[j]

(***************************************************************************)
(* sep_sum_circle (aper.c 158-175): the circle's macros are in aper.c, the *)
(* body they are expanded into, aperbody.h, is the aperture summation      *)
(* engine and is taken from its description (validate, resolve the         *)
(* converters, box, pixel loop with the oversampling band, mask            *)
(* correction, Poisson term).                                              *)
(***************************************************************************)
\* lines 137-143
oversamp_ann_circle(r) ==
    LET rin == RSub(r, C_0_7072)
        rout == RAdd(r, C_0_7072)
    IN  [r_in2 |-> IF RGt(rin, RZero) THEN RMul(rin, rin) ELSE RZero,
         r_out2 |-> RMul(rout, rout)]

\* APER_INIT, lines 164-166, with the scale and offset of the sub-cells
circle_init(a, r) ==
    LET scale == RDiv(ROne, RInt(a.subpix))
        ann == oversamp_ann_circle(r)
        errisarray == (SEP_ERROR_IS_ARRAY \in a.inflag) /\ a.error # NULL
        errisstd == SEP_ERROR_IS_VAR \notin a.inflag
        scalar == a.error # NULL /\ ~errisarray
        v0 == IF scalar THEN a.error[0] ELSE RZero
    IN  [r2 |-> RMul(r, r), r_in2 |-> ann.r_in2, r_out2 |-> ann.r_out2,
         scale |-> scale, scale2 |-> RMul(scale, scale),
         offset |-> RMul(Half, RSub(scale, ROne)),
         errisarray |-> errisarray, errisstd |-> errisstd,
         varpix |-> IF scalar /\ errisstd THEN RMul(v0, v0) ELSE v0]

\* the sub-cells of one row of sub-cells whose centre passes APER_COMPARE3,
\* each worth scale2
RECURSIVE circle_sx(_, _, _, _, _, _)
circle_sx(a, c, dx1, dy2, sx, overlap) ==
    IF sx = 0 THEN overlap
    ELSE Strict(overlap,
         circle_sx(a, c, RAdd(dx1, c.scale), dy2, sx - 1,
             IF RLt(RAdd(RMul(dx1, dx1), dy2), c.r2)
             THEN RAdd(overlap, c.scale2) ELSE overlap))

\* the rows of sub-cells of one pixel
RECURSIVE circle_overlap(_, _, _, _, _, _)
circle_overlap(a, c, dx, dy, sy, overlap) ==
    IF sy = 0 THEN overlap
    ELSE LET row == circle_sx(a, c, dx, RMul(dy, dy), a.subpix, overlap)
         IN  Strict(row, circle_overlap(a, c, dx, RAdd(dy, c.scale), sy - 1, row))

\* one pixel of the box: APER_COMPARE1 admits it, APER_COMPARE2 puts it in
\* the oversampling band, else it counts whole
circle_pixel(a, c, acc, ix, iy, pos) ==
    LET dx == RSub(RInt(ix), a.x)
        dy == RSub(RInt(iy), a.y)
        rpix2 == RAdd(RMul(dx, dx), RMul(dy, dy))
    IN  IF ~RLt(rpix2, c.r_out2) THEN acc
        ELSE
        LET overlap == IF RGt(rpix2, c.r_in2)
                       THEN circle_overlap(a, c, RAdd(dx, c.offset), RAdd(dy, c.offset),
                                           a.subpix, RZero)
                       ELSE ROne
            pix == a.data[pos]
            v == IF c.errisarray THEN a.error[pos] ELSE c.varpix
            varpix == IF c.errisarray /\ c.errisstd THEN RMul(v, v) ELSE v
            masked == a.mask # NULL /\ RGt(a.mask[pos], a.maskthresh)
        IN  IF masked
            THEN [acc EXCEPT !.flag = @ \cup {SEP_APER_HASMASKED},
                             !.maskarea = RAdd(@, overlap),
                             !.area = RAdd(@, overlap)]
            ELSE [acc EXCEPT !.sum = RAdd(@, RMul(overlap, pix)),
                             !.sumvar = RAdd(@, RMul(overlap, varpix)),
                             !.area = RAdd(@, overlap)]

RECURSIVE circle_row(_, _, _, _, _, _, _)
circle_row(a, c, box, acc, iy, ix, pos) ==
    IF ix >= box.xmax THEN acc
    ELSE Strict(acc, circle_row(a, c, box, circle_pixel(a, c, acc, ix, iy, pos),
                                iy, ix + 1, pos + 1))

RECURSIVE circle_loop(_, _, _, _, _)
circle_loop(a, c, box, acc, iy) ==
    IF iy >= box.ymax THEN acc
    ELSE LET row == circle_row(a, c, box, acc, iy, box.xmin,
                               (iy % a.h) * a.w + box.xmin)
         IN  Strict(row, circle_loop(a, c, box, row, iy + 1))

\* mask correction and Poisson term of the engine, on scalars
circle_finish(a, acc) ==
    LET ign == SEP_MASK_IGNORE \in a.inflag
        tmp == IF acc.area = acc.maskarea THEN RZero
               ELSE RDiv(acc.area, RSub(acc.area, acc.maskarea))
        area == IF a.mask # NULL /\ ign THEN RSub(acc.area, acc.maskarea) ELSE acc.area
        sum == IF a.mask # NULL /\ ~ign THEN RMul(acc.sum, tmp) ELSE acc.sum
        var == IF a.mask # NULL /\ ~ign THEN RMul(acc.sumvar, tmp) ELSE acc.sumvar
    IN  [status |-> RETURN_OK, sum |-> sum, area |-> area, flag |-> acc.flag,
         sumvar |-> IF RGt(a.gain, RZero) /\ RGt(sum, RZero)
                    THEN RAdd(var, RDiv(sum, a.gain)) ELSE var]

sep_sum_circle(a, r, m) ==
    IF RLt(r, RZero) THEN [m EXCEPT !.status = ILLEGAL_APER_PARAMS]
    ELSE IF a.subpix < 1 THEN [m EXCEPT !.status = ILLEGAL_SUBPIX]
    ELSE IF multi_converters(a) # RETURN_OK
    THEN [m EXCEPT !.status = multi_converters(a)]
    ELSE LET c == circle_init(a, r)
             \* APER_BOXEXTENT, lines 167-168
             box == boxextent(a.x, a.y, r, r, a.w, a.h, {})
             acc0 == [sum |-> RZero, sumvar |-> RZero, area |-> RZero,
                      maskarea |-> RZero, flag |-> box.flag]
         IN  circle_finish(a, circle_loop(a, c, box, acc0, box.ymin))

(***************************************************************************)
(* The same aperture measured twice, by the multi-annulus engine and by    *)
(* the circular aperture sum of radius rmax: no mask, no error, no gain.   *)
(***************************************************************************)
AnnCentresX == {Rat(k, 2) : k \in 0..(2 * (MultiW - 1))}
AnnCentresY == {Rat(k, 2) : k \in 0..(2 * (MultiH - 1))}
AnnRadii == {Rat(k, 2) : k \in 1..MultiMaxR} \cup {Rat(1, 4)}
CircleMem0 == [status |-> Unset, sum |-> Garbage, sumvar |-> Garbage,
               area |-> Garbage, flag |-> {}]

AnnInit ==
    /\ pc = "ready"
    /\ \E x \in AnnCentresX, y \in AnnCentresY, rmax \in AnnRadii,
          n \in 1..MultiBufLen, subpix \in 1..MultiMaxSubpix :
          in = [fn |-> "both"]
                 @@ MultiArgs(<<NULL, "SEP_TFLOAT", {}>>, NULL, "SEP_TBYTE", "SEP_TFLOAT",
                              RZero, {}, x, y, rmax, n, subpix)
    /\ out = [multi |-> MultiMem0(RZero), circle |-> CircleMem0]

AnnMultiCall ==
    /\ pc = "ready"
    /\ pc' = "sep_sum_circann_multi"
    /\ out' = [out EXCEPT !.multi = sep_sum_circann_multi(in, @)]
    /\ UNCHANGED in

AnnCircleCall ==
    /\ pc = "sep_sum_circann_multi"
    /\ pc' = "sep_sum_circle"
    /\ out' = [out EXCEPT !.circle = sep_sum_circle(in, in.rmax, @)]
    /\ UNCHANGED in

AnnNext == AnnMultiCall \/ AnnCircleCall
SpecAnn == AnnInit /\ [][AnnNext]_vars

(***************************************************************************)
(* C9.  sep_sum_circann_multi returns with SEP_APER_TRUNC set iff the      *)
(* bounding box of the disk of radius rmax centred at (x, y) extends       *)
(* beyond [0,w) x [0,h); a disk whose box lies inside the image returns    *)
(* with the flag clear.                                                    *)
(***************************************************************************)
DiskBoxBeyond ==
    \/ GeomLo(in.x, in.rmax) < 0 \/ GeomHi(in.x, in.rmax) > in.w
    \/ GeomLo(in.y, in.rmax) < 0 \/ GeomHi(in.y, in.rmax) > in.h

C9_TruncIffDiskBoxBeyondImage ==
    (pc # "ready" /\ out.multi.status = RETURN_OK)
        => ((SEP_APER_TRUNC \in out.multi.flag) <=> DiskBoxBeyond)

(***************************************************************************)
(* C10.  For rmax > 0, n >= 1, subpix >= 1, no mask and no gain, the sums  *)
(* over the bins j = 0..n-1 of sum[j], area[j] and sumvar[j] returned by   *)
(* sep_sum_circann_multi equal the sum, area and sumvar returned by        *)
(* sep_sum_circle for r = rmax and the same subpix.                        *)
(***************************************************************************)
BinTotal(buf, n) == RSumOver(0..(n - 1), buf)

C10_BinsAddUpToCircle ==
    (pc = "sep_sum_circle" /\ out.multi.status = RETURN_OK
       /\ out.circle.status = RETURN_OK)
        => /\ BinTotal(out.multi.sum, in.n) = out.circle.sum
           /\ BinTotal(out.multi.area, in.n) = out.circle.area
           /\ BinTotal(out.multi.sumvar, in.n) = out.circle.sumvar

(***************************************************************************)
(* sep_set_ellipse (aper.c 669-696).  arr is the caller's byte array, a    *)
(* function on the offsets 0..w*h-1; the result is the array as the call   *)
(* leaves it and the set of offsets it stored to.                          *)
(***************************************************************************)
\* lines 691-693: one pixel of the box, at element offset pos
set_pixel(a, acc, xi, yi, pos) ==
    LET dx == RSub(RInt(xi), a.x)
        dy == RSub(RInt(yi), a.y)
        q == RAdd(RAdd(RMul(a.cxx, RMul(dx, dx)), RMul(a.cyy, RMul(dy, dy))),
                  RMul(a.cxy, RMul(dx, dy)))
    IN  IF RLe(q, RMul(a.r, a.r))
        THEN [arr |-> [acc.arr EXCEPT ![pos] = a.val],
              writes |-> acc.writes \cup {pos}]
        ELSE acc

\* lines 689-694: the pixels xi of one row, arrt stepping by one
RECURSIVE set_row(_, _, _, _, _, _)
set_row(a, box, acc, yi, xi, pos) ==
    IF xi >= box.xmax THEN acc
    ELSE Strict(acc, set_row(a, box, set_pixel(a, acc, xi, yi, pos),
                             yi, xi + 1, pos + 1))

\* lines 684-695: the rows yi of the box, each starting at arr + (yi*w + xmin)
RECURSIVE set_loop(_, _, _, _)
set_loop(a, box, acc, yi) ==
    IF yi >= box.ymax THEN acc
    ELSE LET row == set_row(a, box, acc, yi, box.xmin, yi * a.w + box.xmin)
         IN  Strict(row, set_loop(a, box, row, yi + 1))

sep_set_ellipse(a, arr) ==
    LET box == boxextent_ellipse(a.x, a.y, a.cxx, a.cyy, a.cxy, a.r, a.w, a.h, {})
    IN  set_loop(a, box, [arr |-> arr, writes |-> {}], box.ymin)

(***************************************************************************)
(* The pixel accesses of the three functions that walk a box, on images    *)
(* of every size up to AddrMaxW x AddrMaxH, with the centre on the image,  *)
(* near it and AddrFar pixels away from it.                                *)
(***************************************************************************)
AddrMaxW == 3
AddrMaxH == 3
AddrFar == 4

AddrCentres(len) ==
    {Rat(k, 2) : k \in (-2)..(2 * len)} \cup {RInt(-AddrFar), RInt(len + AddrFar)}
AddrOffsets(w, h) == 0..(w * h - 1)
AddrBad == RNeg(RAdd(BIG, ROne))

\* mask, error, edtype, inflag
AddrBuffers(w, h) ==
    {<<NULL, NULL, "SEP_TFLOAT", {}>>,
     <<[p \in AddrOffsets(w, h) |-> IF p % 2 = 0 THEN ROne ELSE RZero],
       [p \in AddrOffsets(w, h) |-> ROne], "SEP_TFLOAT", {SEP_ERROR_IS_ARRAY}>>,
     <<NULL, MultiErrScalar, "SEP_TFLOAT", {}>>}

AddrMultiInit ==
    /\ pc = "ready"
    /\ \E w \in 1..AddrMaxW, h \in 1..AddrMaxH, rmax \in {Half, RInt(2)}, n \in 1..2 :
          \E x \in AddrCentres(w), y \in AddrCentres(h), b \in AddrBuffers(w, h) :
             in = [fn |-> "sep_sum_circann_multi", data |-> [p \in AddrOffsets(w, h) |-> ROne],
                   error |-> b[2], mask |-> b[1], dtype |-> "SEP_TFLOAT",
                   edtype |-> b[3], mdtype |-> "SEP_TBYTE", w |-> w, h |-> h,
                   maskthresh |-> RZero, gain |-> RZero, inflag |-> b[4],
                   x |-> x, y |-> y, rmax |-> rmax, n |-> n, subpix |-> 1]
    /\ out = MultiMem0(RZero)

\* the last pixel is below the bad-pixel floor when bad is set
AddrKronInit ==
    /\ pc = "ready"
    /\ \E w \in 1..AddrMaxW, h \in 1..AddrMaxH, el \in KronEllipses,
          masked \in BOOLEAN :
          \E x \in AddrCentres(w), y \in AddrCentres(h) :
             in = [fn |-> "sep_kron_radius",
                   data |-> [p \in AddrOffsets(w, h) |->
                                IF masked /\ p = w * h - 1 THEN AddrBad ELSE RInt(2)],
                   mask |-> IF masked
                            THEN [p \in AddrOffsets(w, h) |->
                                     IF p = 0 THEN ROne ELSE RZero]
                            ELSE NULL,
                   dtype |-> "SEP_TFLOAT", mdtype |-> "SEP_TBYTE", w |-> w, h |-> h,
                   maskthresh |-> RZero, x |-> x, y |-> y,
                   cxx |-> el[1], cyy |-> el[2], cxy |-> el[3], r |-> el[4]]
    /\ out = [status |-> Unset, reads |-> {}, flag |-> {}, kronrad |-> Garbage]

SetInit ==
    /\ pc = "ready"
    /\ \E w \in 1..AddrMaxW, h \in 1..AddrMaxH, el \in KronEllipses :
          \E x \in AddrCentres(w), y \in AddrCentres(h) :
             in = [fn |-> "sep_set_ellipse",
                   arr |-> [p \in AddrOffsets(w, h) |-> p % 2], val |-> 9,
                   w |-> w, h |-> h, x |-> x, y |-> y,
                   cxx |-> el[1], cyy |-> el[2], cxy |-> el[3], r |-> el[4]]
    /\ out = [arr |-> in.arr, writes |-> {}]

SetCall ==
    /\ pc = "ready"
    /\ in.fn = "sep_set_ellipse"
    /\ pc' = "sep_set_ellipse"
    /\ out' = sep_set_ellipse(in, in.arr)
    /\ UNCHANGED in

AddrInit == AddrMultiInit \/ AddrKronInit \/ SetInit
AddrNext == MultiCall \/ KronCall \/ SetCall
SpecAddr == AddrInit /\ [][AddrNext]_vars

(***************************************************************************)
(* On images whose offsets fit an int: each element read from data, error  *)
(* or mask, or written to the byte array, is at offset (row mod h)*w + col *)
(* of an image pixel (col, row) the function visits, hence inside          *)
(* [0, w*h), also when the box is clipped or empty; a scalar error is read *)
(* at its one element; sep_set_ellipse stores val exactly at the pixels    *)
(* with cxx*dx^2 + cyy*dy^2 + cxy*dx*dy <= r^2 and leaves the other bytes. *)
(***************************************************************************)
AddrPixels == (0..(in.w - 1)) \X (0..(in.h - 1))
AddrOffsetOf(p) == (p[2] % in.h) * in.w + p[1]
AddrOffsetsOf(S) == {AddrOffsetOf(p) : p \in S}

\* the pixels whose values sep_sum_circann_multi fetches: rpix2 < r_out2
AddrMultiTouched ==
    {p \in AddrPixels :
        LET dx == RSub(RInt(p[1]), in.x)
            dy == RSub(RInt(p[2]), in.y)
            r_out == RAdd(in.rmax, C_1_5)
        IN  RLt(RAdd(RMul(dx, dx), RMul(dy, dy)), RMul(r_out, r_out))}

AddrMultiOk ==
    LET isarray == in.error # NULL /\ SEP_ERROR_IS_ARRAY \in in.inflag
        at == AddrOffsetsOf(AddrMultiTouched)
    IN  /\ {r[2] : r \in {q \in out.reads : q[1] = "data"}} = at
        /\ {r[2] : r \in {q \in out.reads : q[1] = "mask"}}
              = (IF in.mask # NULL THEN at ELSE {})
        /\ {r[2] : r \in {q \in out.reads : q[1] = "error"}}
              = (IF in.error = NULL THEN {} ELSE IF isarray THEN at ELSE {0})

AddrKronOk ==
    /\ {r[2] : r \in {q \in out.reads : q[1] = "data"}} = AddrOffsetsOf(KronRegion)
    /\ {r[2] : r \in {q \in out.reads : q[1] = "mask"}}
          = (IF in.mask = NULL THEN {}
             ELSE AddrOffsetsOf({p \in KronRegion : ~RLt(KronValue(p), RNeg(BIG))}))

AddrSetOk ==
    /\ out.writes = AddrOffsetsOf(KronRegion)
    /\ out.arr = [p \in DOMAIN in.arr |->
                     IF p \in AddrOffsetsOf(KronRegion) THEN in.val ELSE in.arr[p]]

AddrAccessesInsideWindow ==
    /\ (pc = "sep_sum_circann_multi" /\ out.status = RETURN_OK) =>
          /\ \A r \in out.reads : r[2] \in 0..(in.w * in.h - 1)
          /\ AddrMultiOk
    /\ (pc = "sep_kron_radius" /\ out.status = RETURN_OK) =>
          /\ \A r \in out.reads : r[2] \in 0..(in.w * in.h - 1)
          /\ AddrKronOk
    /\ pc = "sep_set_ellipse" =>
          /\ \A p \in out.writes : p \in 0..(in.w * in.h - 1)
          /\ AddrSetOk

\* a clipped box on an image that is not square, read down to its last row
AddrWitness_ClippedRead ==
    /\ pc = "sep_sum_circann_multi"
    /\ out.status = RETURN_OK
    /\ SEP_APER_TRUNC \in out.flag
    /\ in.w # in.h /\ in.h >= 2
    /\ in.mask # NULL
    /\ <<"data", in.w * in.h - 1>> \in out.reads
    /\ <<"data", 0>> \notin out.reads

\* a box that lies off the image: the loop is empty and nothing is accessed
AddrWitness_EmptyBox ==
    /\ pc = "sep_kron_radius"
    /\ out.status = RETURN_OK
    /\ out.reads = {}
    /\ RLt(in.x, RZero)

\* some but not all bytes of the array are stored to
AddrWitness_EllipseSet ==
    /\ pc = "sep_set_ellipse"
    /\ out.writes # {}
    /\ out.writes # DOMAIN in.arr
    /\ in.w # in.h

(***************************************************************************)
(* The row offset in the width of the code.  w, h, iy and xmin are int,    *)
(* so (iy%h) * w + xmin (lines 391, 617) and yi*w + xmin (line 686) are    *)
(* computed in 32-bit int before they become a long or a pointer offset.   *)
(* When the value does not fit, the behaviour is undefined: a build either *)
(* keeps the low 32 bits (a 32-bit multiply, then sign extension) or       *)
(* computes the offset in 64 bits (the row pointer strength-reduced).      *)
(***************************************************************************)
INT_MAX == (2 ^ 30 - 1) * 2 + 1
TwoTo16 == 2 ^ 16

\* a*b + c <= INT_MAX for a, b, c >= 0, decided without forming the product
Int32Fits(a, b, c) == a = 0 \/ b <= (INT_MAX - c) \div a

\* the low 32 bits of a*b + c, read as a signed int, for 0 <= a, b, c <= INT_MAX;
\* computed on 16-bit and 8-bit halves so that no intermediate exceeds INT_MAX
Int32Wrap(a, b, c) ==
    LET ah == a \div TwoTo16
        al == a % TwoTo16
        bh == b \div TwoTo16
        bl == b % TwoTo16
        \* al*bl = P*2^8 + Q
        P == (al \div 256) * bl
        Q == (al % 256) * bl
        t == (P % 256) * 256 + Q
        lo0 == t % TwoTo16
        hi0 == (P \div 256) + (t \div TwoTo16)
                 + ((ah * bl) % TwoTo16) + ((al * bh) % TwoTo16)
        lo1 == lo0 + (c % TwoTo16)
        lo == lo1 % TwoTo16
        hi == (hi0 + (c \div TwoTo16) + (lo1 \div TwoTo16)) % TwoTo16
    IN  IF hi >= TwoTo16 \div 2 THEN (hi - TwoTo16) * TwoTo16 + lo
        ELSE hi * TwoTo16 + lo

\* an element offset o of a buffer of rows of w elements, as <<o \div w, o % w>>
offset_of(v, w) == <<v \div w, v % w>>
\* a pointer k elements after the element o (datat += size, arrt++)
ptr_add(o, k, w) == <<o[1] + (o[2] + k) \div w, (o[2] + k) % w>>

\* lines 391, 617, 686: the element a row pointer is set to, row = iy%h or yi
row_address(mode, row, w, xmin) ==
    IF Int32Fits(row, w, xmin) THEN offset_of(row * w + xmin, w)
    ELSE IF mode = "wrap32" THEN offset_of(Int32Wrap(row, w, xmin), w)
    ELSE ptr_add(<<row, 0>>, xmin, w)

\* line 407: the pixels sep_sum_circann_multi fetches, rpix2 < r_out2
multi_fetches(a, ix, iy) ==
    LET dx == RSub(RInt(ix), a.x)
        dy == RSub(RInt(iy), a.y)
        r_out == RAdd(a.rmax, C_1_5)
    IN  RLt(RAdd(RMul(dx, dx), RMul(dy, dy)), RMul(r_out, r_out))

\* lines 626-627 and 691-692: the pixels inside the ellipse
ellipse_inside(a, ix, iy) ==
    LET dx == RSub(RInt(ix), a.x)
        dy == RSub(RInt(iy), a.y)
    IN  RLe(RAdd(RAdd(RMul(a.cxx, RMul(dx, dx)), RMul(a.cyy, RMul(dy, dy))),
                 RMul(a.cxy, RMul(dx, dy))),
            RMul(a.r, a.r))

box_pixels(box) == (box.xmin..(box.xmax - 1)) \X (box.ymin..(box.ymax - 1))

\* the pixels whose elements a call accesses, and the elements accessed
multi_addresses(mode, a) ==
    LET r_out == RAdd(a.rmax, C_1_5)
        box == boxextent(a.x, a.y, r_out, r_out, a.w, a.h, {})
        px == {p \in box_pixels(box) : multi_fetches(a, p[1], p[2])}
    IN  [pixels |-> px,
         addrs |-> {ptr_add(row_address(mode, p[2] % a.h, a.w, box.xmin),
                            p[1] - box.xmin, a.w) : p \in px}]

kron_addresses(mode, a) ==
    LET box == boxextent_ellipse(a.x, a.y, a.cxx, a.cyy, a.cxy, a.r, a.w, a.h, {})
        px == {p \in box_pixels(box) : ellipse_inside(a, p[1], p[2])}
    IN  [pixels |-> px,
         addrs |-> {ptr_add(row_address(mode, p[2] % a.h, a.w, box.xmin),
                            p[1] - box.xmin, a.w) : p \in px}]

set_addresses(mode, a) ==
    LET box == boxextent_ellipse(a.x, a.y, a.cxx, a.cyy, a.cxy, a.r, a.w, a.h, {})
        px == {p \in box_pixels(box) : ellipse_inside(a, p[1], p[2])}
    IN  [pixels |-> px,
         addrs |-> {ptr_add(row_address(mode, p[2], a.w, box.xmin),
                            p[1] - box.xmin, a.w) : p \in px}]

(***************************************************************************)
(* The addresses of the three functions on images up to WideH rows of 1,   *)
(* 2, 3 or WideW elements; w and h are any int >= 1, and the buffers of    *)
(* the widest images hold more than INT_MAX elements.                      *)
(***************************************************************************)
WideH == 4
WideW == 2 ^ 30
WideWidths == {1, 2, 3, WideW}
WideCentres == {Rat(k, 2) : k \in 0..(2 * WideH)} \cup {RInt(-4)}
Int32Modes == {"wrap32", "wide64"}

WideMultiInit ==
    /\ pc = "ready"
    /\ \E w \in WideWidths, h \in 1..WideH, x \in WideCentres, y \in WideCentres,
          rmax \in {Half, RInt(2)} :
          in = [fn |-> "sep_sum_circann_multi", w |-> w, h |-> h,
                x |-> x, y |-> y, rmax |-> rmax]
    /\ out = [pixels |-> {}, addrs |-> {}]

WideEllipseInit ==
    /\ pc = "ready"
    /\ \E fn \in {"sep_kron_radius", "sep_set_ellipse"}, w \in WideWidths,
          h \in 1..WideH, x \in WideCentres, y \in WideCentres, el \in KronEllipses :
          in = [fn |-> fn, w |-> w, h |-> h, x |-> x, y |-> y,
                cxx |-> el[1], cyy |-> el[2], cxy |-> el[3], r |-> el[4]]
    /\ out = [pixels |-> {}, addrs |-> {}]

MultiAddresses ==
    /\ pc = "ready"
    /\ in.fn = "sep_sum_circann_multi"
    /\ pc' = "addresses"
    /\ \E mode \in Int32Modes : out' = multi_addresses(mode, in)
    /\ UNCHANGED in

KronAddresses ==
    /\ pc = "ready"
    /\ in.fn = "sep_kron_radius"
    /\ pc' = "addresses"
    /\ \E mode \in Int32Modes : out' = kron_addresses(mode, in)
    /\ UNCHANGED in

SetAddresses ==
    /\ pc = "ready"
    /\ in.fn = "sep_set_ellipse"
    /\ pc' = "addresses"
    /\ \E mode \in Int32Modes : out' = set_addresses(mode, in)
    /\ UNCHANGED in

WideInit == WideMultiInit \/ WideEllipseInit
WideNext == MultiAddresses \/ KronAddresses \/ SetAddresses
SpecWide == WideInit /\ [][WideNext]_vars

\* on the images of SpecAddr the addresses above are the offsets the loops of
\* sep_sum_circann_multi, sep_kron_radius and sep_set_ellipse read and store to
AddrFlat(S) == {o[1] * in.w + o[2] : o \in S}
AddrReads(b) == {r[2] : r \in {q \in out.reads : q[1] = b}}
AddressesAgreeWithLoops ==
    /\ (pc = "sep_sum_circann_multi" /\ out.status = RETURN_OK) =>
          \A m \in Int32Modes :
             AddrFlat(multi_addresses(m, in).addrs) = AddrReads("data")
    /\ (pc = "sep_kron_radius" /\ out.status = RETURN_OK) =>
          \A m \in Int32Modes :
             AddrFlat(kron_addresses(m, in).addrs) = AddrReads("data")
    /\ pc = "sep_set_ellipse" =>
          \A m \in Int32Modes : AddrFlat(set_addresses(m, in).addrs) = out.writes

(***************************************************************************)
(* C11.  In sep_sum_circann_multi, sep_kron_radius and sep_set_ellipse,    *)
(* for every centre, radius and image size w, h >= 1, each element that is *)
(* read or written is the element (row mod h)*w + col of a pixel           *)
(* (col, row) with 0 <= col < w, hence inside [0, w*h): no element outside *)
(* the w x h buffer is accessed.                                           *)
(***************************************************************************)
C11_AccessesInsideBuffer ==
    pc = "addresses" =>
       /\ out.addrs = {<<p[2] % in.h, p[1]>> : p \in out.pixels}
       /\ \A o \in out.addrs : o[1] \in 0..(in.h - 1) /\ o[2] \in 0..(in.w - 1)

=============================================================================
